---- MODULE Spec2Model ----
(***************************************************************************)
(* Model of the tasktimetracker service: the HTTP handlers that compose    *)
(* SQL statements with sqlx::QueryBuilder (src/src/handlers) and the       *)
(* Record types of src/src/records.rs.                                     *)
(*                                                                         *)
(* A composed statement is kept as the QueryBuilder keeps it: the sequence *)
(* of pushed text fragments, with "?" where push_bind put a placeholder,   *)
(* and the sequence of bound values.  Storage executes a statement by      *)
(* reading those fragments back, so a malformed statement (a stray comma,  *)
(* an empty SET, an ambiguous column) is a storage error and not a result. *)
(*                                                                         *)
(* Requests are handled one at a time: every handler issues at most one    *)
(* statement (or one transaction), which SQLite serialises.  resp holds    *)
(* the response of the request being answered; Return hands it over.       *)
(***************************************************************************)
EXTENDS Integers, Sequences, FiniteSets, TLC

VARIABLES booking, tag, tagassignment, now, resp, held, rbooking, task

vars == <<booking, tag, tagassignment, now, resp, held, rbooking, task>>

(***************************************************************************)
(* Bounds of the model                                                     *)
(***************************************************************************)
MaxId == 2
MaxTime == 1
MaxTagList == 2
MaxAssign == 2

Ids == 1..MaxId
Times == 0..MaxTime

(***************************************************************************)
(* Values.  Option<T> is None or Some(v); a String is a sequence of        *)
(* characters; a bound value carries its SQL type.                         *)
(***************************************************************************)
None == <<"None">>
Some(v) == <<"Some", v>>
IsSome(o) == o[1] = "Some"
IsNone(o) == o[1] = "None"
Unwrap(o) == o[2]
Opt(S) == {None} \cup {Some(v) : v \in S}
NoRecord == None

IntV(n) == <<"i64", n>>
StrV(s) == <<"str", s>>

EmptyString == <<>>
TagNames == {<<"x">>, <<"y">>}
ReqTimes == {0, MaxTime}

SeqsUpTo(S, n) == UNION {[1..k -> S] : k \in 0..n}

Max(S) == CHOOSE m \in S : \A x \in S : x <= m
Min(S) == CHOOSE m \in S : \A x \in S : m <= x

(***************************************************************************)
(* sqlx::QueryBuilder: new, push and push_bind                             *)
(***************************************************************************)
QueryBuilderNew(init) == [sql |-> <<init>>, args |-> <<>>]
Push(qb, s) == [sql |-> Append(qb.sql, s), args |-> qb.args]
\* the value is formatted into the text instead of being bound
PushBindInline(qb, v) == [sql |-> Append(qb.sql, ToString(v[2])), args |-> qb.args]
PushBind(qb, v) == [sql |-> Append(qb.sql, "?"), args |-> Append(qb.args, v)]

NoQuery == [sql |-> <<>>, args |-> <<>>]

(***************************************************************************)
(* Responses                                                               *)
(***************************************************************************)
NoError == <<"none">>
DatabaseError == <<"Database">>
RowNotFound == <<"RowNotFound">>

Idle ==
    [op |-> "idle", req |-> <<>>, outcome |-> "none", err |-> NoError,
     query |-> NoQuery, executed |-> FALSE, body |-> <<>>]

Response(op, req, outcome, err, query, executed, body) ==
    [op |-> op, req |-> req, outcome |-> outcome, err |-> err,
     query |-> query, executed |-> executed, body |-> body]

(***************************************************************************)
(* Rows of a table in id order                                             *)
(***************************************************************************)
RECURSIVE SortById(_)
SortById(rows) ==
    IF rows = {} THEN <<>>
    ELSE LET first == CHOOSE r \in rows : \A o \in rows : r.id <= o.id
         IN <<first>> \o SortById(rows \ {first})

NextRowId(rows) == IF rows = {} THEN 1 ELSE Max({r.id : r \in rows}) + 1

(***************************************************************************)
(* Storage: UPDATE booking SET <assignments> WHERE id = ? RETURNING ...    *)
(* read back from the fragments the handler pushed.                        *)
(***************************************************************************)
BookingReturning == " RETURNING id, startdate, enddate, des"

AssignmentColumn(fragment) ==
    CASE fragment = "startdate = " -> "startdate"
      [] fragment = "enddate = " -> "enddate"
      [] fragment = "des = " -> "des"
      [] OTHER -> "none"

\* assignment ("," assignment)* starting at fragment i, k placeholders consumed so far
RECURSIVE ParseAssignments(_, _, _, _)
ParseAssignments(sql, i, k, acc) ==
    IF i + 1 <= Len(sql) /\ AssignmentColumn(sql[i]) # "none" /\ sql[i + 1] = "?"
    THEN LET acc2 == Append(acc, [col |-> AssignmentColumn(sql[i]), arg |-> k + 1])
         IN IF i + 2 <= Len(sql) /\ sql[i + 2] = ", "
            THEN ParseAssignments(sql, i + 3, k + 1, acc2)
            ELSE [ok |-> TRUE, assigns |-> acc2, i |-> i + 2, k |-> k + 1]
    ELSE [ok |-> FALSE, assigns |-> acc, i |-> i, k |-> k]

AssignBookingColumn(row, col, v) ==
    CASE col = "startdate" -> [row EXCEPT !.startdate = v[2]]
      [] col = "enddate" -> [row EXCEPT !.enddate = Some(v[2])]
      [] col = "des" -> [row EXCEPT !.des = v[2]]

RECURSIVE ApplyAssignments(_, _, _, _)
ApplyAssignments(row, assigns, args, j) ==
    IF j > Len(assigns) THEN row
    ELSE ApplyAssignments(AssignBookingColumn(row, assigns[j].col, args[assigns[j].arg]),
                          assigns, args, j + 1)

ExecUpdateBooking(qb, table) ==
    LET sql == qb.sql
        parsed == IF Len(sql) >= 2 /\ sql[1] = "UPDATE booking " /\ sql[2] = "SET "
                  THEN ParseAssignments(sql, 3, 0, <<>>)
                  ELSE [ok |-> FALSE, assigns |-> <<>>, i |-> 0, k |-> 0]
        wellFormed == /\ parsed.ok
                      /\ Len(sql) = parsed.i + 2
                      /\ sql[parsed.i] = " WHERE id = "
                      /\ sql[parsed.i + 1] = "?"
                      /\ sql[parsed.i + 2] = BookingReturning
                      /\ Len(qb.args) = parsed.k + 1
    IN IF ~wellFormed
       THEN [ok |-> FALSE, table |-> table, rows |-> <<>>]
       ELSE LET id == qb.args[parsed.k + 1][2]
                hit == {r \in table : r.id = id}
                updated == {ApplyAssignments(r, parsed.assigns, qb.args, 1) : r \in hit}
            IN [ok |-> TRUE, table |-> (table \ hit) \cup updated,
                rows |-> SortById(updated)]

(***************************************************************************)
(* patch_booking                                                           *)
(***************************************************************************)
\* the guard with the enddate test inverted
PatchBookingIsNoopInverted(p) ==
    IsNone(p.description) /\ IsNone(p.startdate) /\ IsSome(p.enddate)

PatchBookingIsNoop(p) ==
    IsNone(p.description) /\ IsNone(p.startdate) /\ IsNone(p.enddate)

\* comma_necessary is not set after the startdate assignment
PatchBookingQueryCommaLost(p) ==
    LET q0 == Push(QueryBuilderNew("UPDATE booking "), "SET ")
        q1 == IF IsSome(p.startdate)
              THEN PushBind(Push(q0, "startdate = "), IntV(Unwrap(p.startdate)))
              ELSE q0
        comma1 == FALSE
        q2 == IF IsSome(p.enddate)
              THEN PushBind(Push(IF comma1 THEN Push(q1, ", ") ELSE q1, "enddate = "),
                            IntV(Unwrap(p.enddate)))
              ELSE q1
        comma2 == comma1 \/ IsSome(p.enddate)
        q3 == IF IsSome(p.description)
              THEN PushBind(Push(IF comma2 THEN Push(q2, ", ") ELSE q2, "des = "),
                            StrV(Unwrap(p.description)))
              ELSE q2
    IN Push(PushBind(Push(q3, " WHERE id = "), IntV(p.id)), BookingReturning)

\* the enddate assignment names the startdate column
PatchBookingQueryWrongColumn(p) ==
    LET q0 == Push(QueryBuilderNew("UPDATE booking "), "SET ")
        q1 == IF IsSome(p.startdate)
              THEN PushBind(Push(q0, "startdate = "), IntV(Unwrap(p.startdate)))
              ELSE q0
        comma1 == IsSome(p.startdate)
        q2 == IF IsSome(p.enddate)
              THEN PushBind(Push(IF comma1 THEN Push(q1, ", ") ELSE q1, "startdate = "),
                            IntV(Unwrap(p.enddate)))
              ELSE q1
        comma2 == comma1 \/ IsSome(p.enddate)
        q3 == IF IsSome(p.description)
              THEN PushBind(Push(IF comma2 THEN Push(q2, ", ") ELSE q2, "des = "),
                            StrV(Unwrap(p.description)))
              ELSE q2
    IN Push(PushBind(Push(q3, " WHERE id = "), IntV(p.id)), BookingReturning)

PatchBookingQuery(p) ==
    LET q0 == Push(QueryBuilderNew("UPDATE booking "), "SET ")
        q1 == IF IsSome(p.startdate)
              THEN PushBind(Push(q0, "startdate = "), IntV(Unwrap(p.startdate)))
              ELSE q0
        comma1 == IsSome(p.startdate)
        q2 == IF IsSome(p.enddate)
              THEN PushBind(Push(IF comma1 THEN Push(q1, ", ") ELSE q1, "enddate = "),
                            IntV(Unwrap(p.enddate)))
              ELSE q1
        comma2 == comma1 \/ IsSome(p.enddate)
        q3 == IF IsSome(p.description)
              THEN PushBind(Push(IF comma2 THEN Push(q2, ", ") ELSE q2, "des = "),
                            StrV(Unwrap(p.description)))
              ELSE q2
    IN Push(PushBind(Push(q3, " WHERE id = "), IntV(p.id)), BookingReturning)

\* fetch_one: the first returned row, or RowNotFound when there is none
FetchOne(op, p, qb, result, okOutcome) ==
    IF ~result.ok THEN Response(op, p, "error", DatabaseError, qb, TRUE, <<>>)
    ELSE IF result.rows = <<>> THEN Response(op, p, "error", RowNotFound, qb, TRUE, <<>>)
    ELSE Response(op, p, okOutcome, NoError, qb, TRUE, <<result.rows[1]>>)

\* fetch_all: every returned row
FetchAll(op, p, qb, result, okOutcome) ==
    IF ~result.ok THEN Response(op, p, "error", DatabaseError, qb, TRUE, <<>>)
    ELSE Response(op, p, okOutcome, NoError, qb, TRUE, result.rows)

NoContent(op, p) == Response(op, p, "no_content", NoError, NoQuery, FALSE, <<>>)

patch_booking(p) ==
    /\ resp = Idle
    /\ IF PatchBookingIsNoop(p)
       THEN /\ resp' = NoContent("patch_booking", p)
            /\ booking' = booking
       ELSE LET qb == PatchBookingQuery(p)
                result == ExecUpdateBooking(qb, booking)
            IN /\ booking' = result.table
               /\ resp' = FetchOne("patch_booking", p, qb, result, "ok")
    /\ UNCHANGED <<tag, tagassignment, now, held, rbooking, task>>

PatchBookingParams ==
    [id : Ids, startdate : Opt(ReqTimes), enddate : Opt(ReqTimes),
     description : Opt({<<"a">>})]


(***************************************************************************)
(* Storage: INSERT INTO BOOKING (<columns>) VALUES (<values>) RETURNING    *)
(***************************************************************************)
InsertColumn(fragment) ==
    CASE fragment = "INSERT INTO BOOKING (startdate" -> "startdate"
      [] fragment = ", enddate" -> "enddate"
      [] fragment = ", des" -> "des"
      [] OTHER -> "none"

RECURSIVE ParseInsertColumns(_, _, _)
ParseInsertColumns(sql, i, acc) ==
    IF i <= Len(sql) /\ InsertColumn(sql[i]) # "none"
    THEN ParseInsertColumns(sql, i + 1, Append(acc, InsertColumn(sql[i])))
    ELSE [cols |-> acc, i |-> i]

\* "?" (", " "?")* starting at fragment i; the number of placeholders read
RECURSIVE ParseInsertValues(_, _, _)
ParseInsertValues(sql, i, k) ==
    IF i <= Len(sql) /\ sql[i] = "?"
    THEN IF i + 1 <= Len(sql) /\ sql[i + 1] = ", "
         THEN ParseInsertValues(sql, i + 2, k + 1)
         ELSE [ok |-> TRUE, i |-> i + 1, k |-> k + 1]
    ELSE [ok |-> FALSE, i |-> i, k |-> k]

\* a column that the statement leaves out takes the default of the table
NewBookingRow(id) == [id |-> id, startdate |-> 0, enddate |-> None, des |-> EmptyString]

RECURSIVE InsertValues(_, _, _, _)
InsertValues(row, cols, args, j) ==
    IF j > Len(cols) THEN row
    ELSE InsertValues(AssignBookingColumn(row, cols[j], args[j]), cols, args, j + 1)

ExecInsertBooking(qb, table) ==
    LET sql == qb.sql
        cols == ParseInsertColumns(sql, 1, <<>>)
        vals == IF cols.i + 1 <= Len(sql) /\ sql[cols.i] = ") VALUES ("
                THEN ParseInsertValues(sql, cols.i + 1, 0)
                ELSE [ok |-> FALSE, i |-> 0, k |-> 0]
        wellFormed == /\ Len(cols.cols) >= 1
                      /\ cols.cols[1] = "startdate"
                      /\ vals.ok
                      /\ Len(sql) = vals.i
                      /\ sql[vals.i] = ")" \o BookingReturning
                      /\ vals.k = Len(cols.cols)
                      /\ Len(qb.args) = vals.k
    IN IF ~wellFormed
       THEN [ok |-> FALSE, table |-> table, rows |-> <<>>]
       ELSE LET row == InsertValues(NewBookingRow(NextRowId(table)), cols.cols, qb.args, 1)
            IN [ok |-> TRUE, table |-> table \cup {row}, rows |-> <<row>>]

(***************************************************************************)
(* post_booking                                                            *)
(***************************************************************************)
\* the description is bound before the enddate
PostBookingQuerySwapped(p, time) ==
    LET q0 == QueryBuilderNew("INSERT INTO BOOKING (startdate")
        startdate == time
        q1 == IF IsSome(p.enddate) THEN Push(q0, ", enddate") ELSE q0
        q2 == IF IsSome(p.description) THEN Push(q1, ", des") ELSE q1
        q3 == PushBind(Push(q2, ") VALUES ("), IntV(startdate))
        q4 == IF IsSome(p.description)
              THEN PushBind(Push(q3, ", "), StrV(Unwrap(p.description)))
              ELSE q3
        q5 == IF IsSome(p.enddate)
              THEN PushBind(Push(q4, ", "), IntV(Unwrap(p.enddate)))
              ELSE q4
    IN Push(q5, ")" \o BookingReturning)

PostBookingQuery(p, time) ==
    LET q0 == QueryBuilderNew("INSERT INTO BOOKING (startdate")
        startdate == time
        q1 == IF IsSome(p.enddate) THEN Push(q0, ", enddate") ELSE q0
        q2 == IF IsSome(p.description) THEN Push(q1, ", des") ELSE q1
        q3 == PushBind(Push(q2, ") VALUES ("), IntV(startdate))
        q4 == IF IsSome(p.enddate)
              THEN PushBind(Push(q3, ", "), IntV(Unwrap(p.enddate)))
              ELSE q3
        q5 == IF IsSome(p.description)
              THEN PushBind(Push(q4, ", "), StrV(Unwrap(p.description)))
              ELSE q4
    IN Push(q5, ")" \o BookingReturning)

post_booking(p) ==
    /\ resp = Idle
    /\ NextRowId(booking) <= MaxId
    /\ LET qb == PostBookingQuery(p, now)
           result == ExecInsertBooking(qb, booking)
       IN /\ booking' = result.table
          /\ resp' = FetchOne("post_booking", p, qb, result, "created")
    /\ UNCHANGED <<tag, tagassignment, now, held, rbooking, task>>

PostBookingParams == [enddate : Opt(ReqTimes), description : Opt({<<"a">>})]

(***************************************************************************)
(* patch_tag                                                               *)
(***************************************************************************)
ExecUpdateTag(qb, table) ==
    LET sql == qb.sql
        wellFormed == /\ sql = <<"", "UPDATE tag SET name = ", "?", " WHERE id = ", "?",
                                 " RETURNING id, name">>
                      /\ Len(qb.args) = 2
    IN IF ~wellFormed
       THEN [ok |-> FALSE, table |-> table, rows |-> <<>>]
       ELSE LET hit == {r \in table : r.id = qb.args[2][2]}
                updated == {[r EXCEPT !.name = qb.args[1][2]] : r \in hit}
            IN [ok |-> TRUE, table |-> (table \ hit) \cup updated,
                rows |-> SortById(updated)]

PatchTagQuery(name, id) ==
    Push(PushBind(Push(PushBind(Push(QueryBuilderNew(""), "UPDATE tag SET name = "),
                                StrV(name)),
                       " WHERE id = "),
                  IntV(id)),
         " RETURNING id, name")

patch_tag(p) ==
    /\ resp = Idle
    /\ IF IsSome(p.name)
       THEN LET qb == PatchTagQuery(Unwrap(p.name), p.id)
                result == ExecUpdateTag(qb, tag)
            IN /\ tag' = result.table
               /\ resp' = FetchAll("patch_tag", p, qb, result, "ok")
       ELSE /\ resp' = NoContent("patch_tag", p)
            /\ tag' = tag
    /\ UNCHANGED <<booking, tagassignment, now, held, rbooking, task>>

PatchTagParams == [id : Ids, name : Opt(TagNames)]

(***************************************************************************)
(* The response reaches the caller                                         *)
(***************************************************************************)
Return ==
    /\ resp # Idle
    /\ resp' = Idle
    /\ UNCHANGED <<booking, tag, tagassignment, now, held, rbooking, task>>

(***************************************************************************)
(* Properties of the partial updates                                       *)
(***************************************************************************)
Count(seq, x) == Cardinality({i \in 1..Len(seq) : seq[i] = x})
Position(seq, x) == Min({i \in 1..Len(seq) : seq[i] = x})
Supplied(o) == IF IsSome(o) THEN 1 ELSE 0

BookingFieldsAbsent(p) ==
    p.startdate = None /\ p.enddate = None /\ p.description = None

\* C4: patch_booking with startdate, enddate and description all absent, and
\* patch_tag with name absent, answer with the no-content signal, execute no
\* statement and leave every table as it was; a request that supplies a field
\* is never answered with the no-content signal.
C4_NoopUpdate ==
    [][(resp = Idle /\ resp'.op \in {"patch_booking", "patch_tag"}) =>
        LET p == resp'.req
            noop == IF resp'.op = "patch_booking" THEN BookingFieldsAbsent(p)
                    ELSE p.name = None
        IN /\ noop => /\ resp'.outcome = "no_content"
                      /\ ~resp'.executed
                      /\ resp'.query = NoQuery
                      /\ booking' = booking
                      /\ tag' = tag
                      /\ tagassignment' = tagassignment
           /\ ~noop => /\ resp'.outcome # "no_content"
                       /\ resp'.executed]_vars

C4_Witness ==
    /\ resp.op = "patch_booking"
    /\ BookingFieldsAbsent(resp.req)
    /\ resp.outcome = "no_content"
    /\ \E r \in booking : r.id = resp.req.id /\ r.des = <<"a">>

\* the fragments between "SET " and " WHERE id = "
SetClause(sql) == SubSeq(sql, 3, Len(sql) - 3)

\* C5: for each non-empty subset of {startdate, enddate, description} the SET
\* clause of patch_booking holds one assignment per supplied field, in the order
\* startdate, enddate, des, with one comma between neighbours and none before the
\* first or after the last.
C5_SetClause ==
    (resp.op = "patch_booking" /\ ~BookingFieldsAbsent(resp.req)) =>
        LET p == resp.req
            sql == resp.query.sql
            clause == SetClause(sql)
            n == Supplied(p.startdate) + Supplied(p.enddate) + Supplied(p.description)
        IN /\ sql[1] = "UPDATE booking " /\ sql[2] = "SET "
           /\ sql[Len(sql) - 2] = " WHERE id = "
           /\ Count(clause, "startdate = ") = Supplied(p.startdate)
           /\ Count(clause, "enddate = ") = Supplied(p.enddate)
           /\ Count(clause, "des = ") = Supplied(p.description)
           /\ Count(clause, ", ") = n - 1
           /\ Count(clause, "?") = n
           /\ Len(clause) = 2 * n + (n - 1)
           /\ clause[1] # ", " /\ clause[Len(clause)] # ", "
           /\ \A i \in 1..Len(clause) :
                  /\ clause[i] = ", " => (clause[i - 1] = "?" /\ clause[i + 1] \notin {", ", "?"})
                  /\ clause[i] \in {"startdate = ", "enddate = ", "des = "} => clause[i + 1] = "?"
           /\ (IsSome(p.startdate) /\ IsSome(p.enddate)) =>
                  Position(clause, "startdate = ") < Position(clause, "enddate = ")
           /\ (IsSome(p.enddate) /\ IsSome(p.description)) =>
                  Position(clause, "enddate = ") < Position(clause, "des = ")
           /\ (IsSome(p.startdate) /\ IsSome(p.description)) =>
                  Position(clause, "startdate = ") < Position(clause, "des = ")

C5_Witness ==
    /\ resp.op = "patch_booking"
    /\ resp.outcome = "ok"
    /\ resp.req.startdate = None
    /\ IsSome(resp.req.enddate)
    /\ IsSome(resp.req.description)
    /\ SetClause(resp.query.sql) = <<"enddate = ", "?", ", ", "des = ", "?">>

\* C6: a patch_booking that supplies a field and names a stored id succeeds;
\* after a successful patch_booking every field that was not supplied keeps its
\* stored value, every supplied field holds the supplied value, every other row
\* is unchanged and the returned row is the stored row.
C6_PatchFrame ==
    [][(resp = Idle /\ resp'.op = "patch_booking") =>
        LET p == resp'.req
            old == {r \in booking : r.id = p.id}
            new == {r \in booking' : r.id = p.id}
        IN /\ (old # {} /\ ~BookingFieldsAbsent(p)) => resp'.outcome = "ok"
           /\ resp'.outcome = "ok" =>
                /\ Cardinality(old) = 1 /\ Cardinality(new) = 1
                /\ booking' \ new = booking \ old
                /\ resp'.body = SortById(new)
                /\ \A o \in old : \A r \in new :
                     /\ r.startdate = IF IsSome(p.startdate) THEN Unwrap(p.startdate)
                                      ELSE o.startdate
                     /\ r.enddate = IF IsSome(p.enddate) THEN p.enddate ELSE o.enddate
                     /\ r.des = IF IsSome(p.description) THEN Unwrap(p.description)
                                ELSE o.des
           /\ resp'.outcome # "ok" => booking' = booking]_vars

C6_Witness ==
    /\ resp.op = "patch_booking"
    /\ resp.outcome = "ok"
    /\ resp.req.startdate = None /\ resp.req.description = None
    /\ resp.req.enddate = Some(MaxTime)
    /\ Cardinality(booking) = 2
    /\ resp.body[1].des = <<"a">>
    /\ resp.body[1].enddate = Some(MaxTime)
    /\ \E r \in booking : r.id # resp.req.id /\ r.enddate = None

(***************************************************************************)
(* get_bookings: the statement, one step of the handler per operator       *)
(***************************************************************************)
JoinFragment ==
    " b INNER JOIN tagassignment tg ON b.id = tg.bid INNER JOIN tag t ON t.id = tg.tgid"

\* the join is pushed when no tag filter was supplied
GetBookingsJoinInverted(qb, p) ==
    IF IsNone(p.tag) THEN Push(qb, JoinFragment) ELSE qb

GetBookingsJoin(qb, p) ==
    IF IsSome(p.tag) THEN Push(qb, JoinFragment) ELSE qb

\* the id predicate is never qualified
GetBookingsIdUnqualified(qb, p) ==
    IF IsSome(p.id)
    THEN PushBind(Push(Push(qb, " AND "), "id = "), IntV(Unwrap(p.id)))
    ELSE qb

GetBookingsId(qb, p) ==
    IF IsSome(p.id)
    THEN LET q1 == Push(qb, " AND ")
             q2 == IF IsSome(p.tag) THEN Push(q1, "b.") ELSE q1
         IN PushBind(Push(q2, "id = "), IntV(Unwrap(p.id)))
    ELSE qb

\* the enddate_max predicate compares with <
GetBookingsDatesEndBefore(qb, p) ==
    LET q1 == IF IsSome(p.startdate_min)
              THEN PushBind(Push(qb, " AND startdate > "), IntV(Unwrap(p.startdate_min)))
              ELSE qb
        q2 == IF IsSome(p.startdate_max)
              THEN PushBind(Push(q1, " AND startdate < "), IntV(Unwrap(p.startdate_max)))
              ELSE q1
        q3 == IF IsSome(p.enddate_min)
              THEN PushBind(Push(q2, " AND enddate > "), IntV(Unwrap(p.enddate_min)))
              ELSE q2
    IN IF IsSome(p.enddate_max)
       THEN PushBind(Push(q3, " AND enddate < "), IntV(Unwrap(p.enddate_max)))
       ELSE q3

GetBookingsDates(qb, p) ==
    LET q1 == IF IsSome(p.startdate_min)
              THEN PushBind(Push(qb, " AND startdate > "), IntV(Unwrap(p.startdate_min)))
              ELSE qb
        q2 == IF IsSome(p.startdate_max)
              THEN PushBind(Push(q1, " AND startdate < "), IntV(Unwrap(p.startdate_max)))
              ELSE q1
        q3 == IF IsSome(p.enddate_min)
              THEN PushBind(Push(q2, " AND enddate > "), IntV(Unwrap(p.enddate_min)))
              ELSE q2
    IN IF IsSome(p.enddate_max)
       THEN PushBind(Push(q3, " AND enddate > "), IntV(Unwrap(p.enddate_max)))
       ELSE q3

GetBookingsDescription(qb, p) ==
    IF IsSome(p.description_contains)
    THEN Push(PushBind(Push(qb, " AND des LIKE CONCAT('%', "),
                       StrV(Unwrap(p.description_contains))),
              ", '%')")
    ELSE qb

\* the loop over tags.into_iter().enumerate(); index counts from 0 as in the code.
\* A comma follows every element, the last one too.
RECURSIVE PushTagsTrailingComma(_, _, _)
PushTagsTrailingComma(qb, tags, index) ==
    IF index >= Len(tags) THEN qb
    ELSE LET q1 == PushBind(qb, StrV(tags[index + 1]))
             q2 == IF index < Len(tags) THEN Push(q1, ",") ELSE q1
         IN PushTagsTrailingComma(q2, tags, index + 1)

RECURSIVE PushTags(_, _, _)
PushTags(qb, tags, index) ==
    IF index >= Len(tags) THEN qb
    ELSE LET q1 == PushBind(qb, StrV(tags[index + 1]))
             q2 == IF index < Len(tags) - 1 THEN Push(q1, ",") ELSE q1
         IN PushTags(q2, tags, index + 1)

GetBookingsTags(qb, p) ==
    IF IsSome(p.tag)
    THEN Push(PushTags(Push(qb, " AND t.name IN ("), Unwrap(p.tag), 0), ")")
    ELSE qb

GetBookingsQuery(p) ==
    LET q0 == QueryBuilderNew("SELECT * FROM booking")
        q1 == Push(GetBookingsJoin(q0, p), " WHERE TRUE")
    IN GetBookingsTags(GetBookingsDescription(GetBookingsDates(GetBookingsId(q1, p), p), p), p)

(***************************************************************************)
(* Storage: SELECT * FROM booking [join] WHERE TRUE [AND predicate]*       *)
(***************************************************************************)
\* [ "?" ("," "?")* ] ")" starting at fragment i, n placeholders read so far;
\* SQLite accepts an empty list, and IN () is false for every row
RECURSIVE ParseInList(_, _, _)
ParseInList(sql, i, n) ==
    IF i > Len(sql) THEN [ok |-> FALSE, n |-> n, i |-> i]
    ELSE IF sql[i] = ")" /\ n = 0 THEN [ok |-> TRUE, n |-> 0, i |-> i + 1]
    ELSE IF sql[i] = "?" /\ i + 1 <= Len(sql) /\ sql[i + 1] = ")"
         THEN [ok |-> TRUE, n |-> n + 1, i |-> i + 2]
    ELSE IF sql[i] = "?" /\ i + 2 <= Len(sql) /\ sql[i + 1] = "," /\ sql[i + 2] = "?"
         THEN ParseInList(sql, i + 2, n + 1)
    ELSE [ok |-> FALSE, n |-> n, i |-> i]

ComparisonOf(fragment) ==
    CASE fragment = " AND startdate > " -> [col |-> "startdate", op |-> ">"]
      [] fragment = " AND startdate < " -> [col |-> "startdate", op |-> "<"]
      [] fragment = " AND enddate > " -> [col |-> "enddate", op |-> ">"]
      [] fragment = " AND enddate < " -> [col |-> "enddate", op |-> "<"]
      [] OTHER -> [col |-> "none", op |-> "none"]

Predicate(col, op, first, n) == [col |-> col, op |-> op, first |-> first, n |-> n]

\* the predicates after WHERE TRUE, from fragment i on, k placeholders read so far
RECURSIVE ParsePredicates(_, _, _, _)
ParsePredicates(sql, i, k, acc) ==
    LET has(j, s) == j <= Len(sql) /\ sql[j] = s
        fail == [ok |-> FALSE, preds |-> acc, k |-> k]
    IN IF i > Len(sql) THEN [ok |-> TRUE, preds |-> acc, k |-> k]
       ELSE IF has(i, " AND ") /\ has(i + 1, "b.") /\ has(i + 2, "id = ") /\ has(i + 3, "?")
            THEN ParsePredicates(sql, i + 4, k + 1, Append(acc, Predicate("b.id", "=", k + 1, 1)))
       ELSE IF has(i, " AND ") /\ has(i + 1, "id = ") /\ has(i + 2, "?")
            THEN ParsePredicates(sql, i + 3, k + 1, Append(acc, Predicate("id", "=", k + 1, 1)))
       ELSE IF ComparisonOf(sql[i]).col # "none" /\ has(i + 1, "?")
            THEN ParsePredicates(sql, i + 2, k + 1,
                     Append(acc, Predicate(ComparisonOf(sql[i]).col, ComparisonOf(sql[i]).op,
                                           k + 1, 1)))
       ELSE IF has(i, " AND des LIKE CONCAT('%', ") /\ has(i + 1, "?") /\ has(i + 2, ", '%')")
            THEN ParsePredicates(sql, i + 3, k + 1, Append(acc, Predicate("des", "like", k + 1, 1)))
       ELSE IF has(i, " AND t.name IN (")
            THEN LET list == ParseInList(sql, i + 1, 0)
                 IN IF list.ok
                    THEN ParsePredicates(sql, list.i, k + list.n,
                             Append(acc, Predicate("t.name", "in", k + 1, list.n)))
                    ELSE fail
       ELSE fail

Contains(s, pattern) ==
    \E i \in 0..(Len(s) - Len(pattern)) : SubSeq(s, i + 1, i + Len(pattern)) = pattern

\* a comparison with NULL is not true
Compare(op, column, v) ==
    /\ IsSome(column)
    /\ IF op = ">" THEN Unwrap(column) > v ELSE Unwrap(column) < v

\* b is the booking row; t is the joined tag row, or NoRecord without the join
HoldsOn(pred, args, b, t) ==
    CASE pred.col \in {"id", "b.id"} -> b.id = args[pred.first][2]
      [] pred.col = "startdate" -> Compare(pred.op, Some(b.startdate), args[pred.first][2])
      [] pred.col = "enddate" -> Compare(pred.op, b.enddate, args[pred.first][2])
      [] pred.col = "des" -> Contains(b.des, args[pred.first][2])
      [] pred.col = "t.name" ->
             \E j \in pred.first..(pred.first + pred.n - 1) : t.name = args[j][2]

\* id is a column of booking and of tag: only b.id names it under the join, and
\* b and t name nothing without the join
ColumnsResolve(preds, joined) ==
    \A j \in 1..Len(preds) :
        /\ preds[j].col = "id" => ~joined
        /\ preds[j].col \in {"b.id", "t.name"} => joined

RECURSIVE Repeat(_, _)
Repeat(x, n) == IF n <= 0 THEN <<>> ELSE <<x>> \o Repeat(x, n - 1)

RECURSIVE SelectedRows(_, _, _, _, _, _)
SelectedRows(sorted, j, preds, args, joined, db) ==
    IF j > Len(sorted) THEN <<>>
    ELSE LET b == sorted[j]
             holds(t) == \A m \in 1..Len(preds) : HoldsOn(preds[m], args, b, t)
             copies ==
                 IF joined
                 THEN Cardinality({a \in 1..Len(db.tagassignment) :
                          /\ db.tagassignment[a].bid = b.id
                          /\ \E t \in db.tag : t.id = db.tagassignment[a].tgid /\ holds(t)})
                 ELSE IF holds(NoRecord) THEN 1 ELSE 0
         IN Repeat(b, copies) \o SelectedRows(sorted, j + 1, preds, args, joined, db)

ExecSelectBookings(qb, db) ==
    LET sql == qb.sql
        joined == Len(sql) >= 2 /\ sql[2] = JoinFragment
        where == IF joined THEN 3 ELSE 2
        parsed == IF /\ Len(sql) >= where
                     /\ sql[1] = "SELECT * FROM booking"
                     /\ sql[where] = " WHERE TRUE"
                  THEN ParsePredicates(sql, where + 1, 0, <<>>)
                  ELSE [ok |-> FALSE, preds |-> <<>>, k |-> 0]
        wellFormed == /\ parsed.ok
                      /\ Len(qb.args) = parsed.k
                      /\ ColumnsResolve(parsed.preds, joined)
    IN IF ~wellFormed
       THEN [ok |-> FALSE, rows |-> <<>>]
       ELSE [ok |-> TRUE,
             rows |-> SelectedRows(SortById(db.booking), 1, parsed.preds, qb.args, joined, db)]

Database == [booking |-> booking, tag |-> tag, tagassignment |-> tagassignment]

get_bookings(p) ==
    /\ resp = Idle
    /\ LET qb == GetBookingsQuery(p)
           result == ExecSelectBookings(qb, Database)
       IN resp' = FetchAll("get_bookings", p, qb, result, "ok")
    /\ UNCHANGED <<booking, tag, tagassignment, now, held, rbooking, task>>

GetBookingsParams ==
    [id : Opt(Ids), startdate_min : Opt(ReqTimes), startdate_max : Opt(ReqTimes),
     enddate_min : Opt(ReqTimes), enddate_max : Opt(ReqTimes),
     tag : Opt(SeqsUpTo(TagNames, MaxTagList)), description_contains : Opt({<<"a">>})]

NoFilter ==
    [id |-> None, startdate_min |-> None, startdate_max |-> None, enddate_min |-> None,
     enddate_max |-> None, tag |-> None, description_contains |-> None]

(***************************************************************************)
(* Spec: the booking handlers on a store that starts empty                 *)
(***************************************************************************)
Init ==
    /\ booking = {}
    /\ tag = {}
    /\ tagassignment = <<>>
    /\ now = 0
    /\ resp = Idle
    /\ held = NoRecord
    /\ rbooking = {}
    /\ task = {}

\* requests that supply at most one filter, and one that supplies two
FewFilters ==
    {[NoFilter EXCEPT !.id = v] : v \in Opt(Ids)}
    \cup {[NoFilter EXCEPT !.startdate_min = v] : v \in Opt(ReqTimes)}
    \cup {[NoFilter EXCEPT !.startdate_max = v] : v \in Opt(ReqTimes)}
    \cup {[NoFilter EXCEPT !.enddate_min = v] : v \in Opt(ReqTimes)}
    \cup {[NoFilter EXCEPT !.enddate_max = v] : v \in Opt(ReqTimes)}
    \cup {[NoFilter EXCEPT !.description_contains = v] : v \in Opt({<<"a">>})}
    \cup {[NoFilter EXCEPT !.tag = Some(<<v>>)] : v \in TagNames}

Next ==
    \/ \E p \in PostBookingParams : post_booking(p)
    \/ \E p \in PatchBookingParams : patch_booking(p)
    \/ \E p \in FewFilters : get_bookings(p)
    \/ Return

Spec == Init /\ [][Next]_vars

(***************************************************************************)
(* SpecPatch: partial updates on a store that already holds two bookings   *)
(* and two tags                                                            *)
(***************************************************************************)
SeedBookings == {NewBookingRow(1), NewBookingRow(2)}
SeedTags == {[id |-> 1, name |-> <<"x">>], [id |-> 2, name |-> <<"y">>]}

InitPatch ==
    /\ booking = SeedBookings
    /\ tag = SeedTags
    /\ tagassignment = <<>>
    /\ now = 0
    /\ resp = Idle
    /\ held = NoRecord
    /\ rbooking = {}
    /\ task = {}

NextPatch ==
    \/ \E p \in PatchBookingParams : patch_booking(p)
    \/ \E p \in PatchTagParams : patch_tag(p)
    \/ Return

SpecPatch == InitPatch /\ [][NextPatch]_vars

(***************************************************************************)
(* SpecGet: get_bookings with every combination of filters, on a store     *)
(* that holds two bookings, two tags and up to two assignments             *)
(***************************************************************************)
StoredBookings ==
    {[id |-> 1, startdate |-> 0, enddate |-> None, des |-> <<>>],
     [id |-> 2, startdate |-> MaxTime, enddate |-> Some(MaxTime), des |-> <<"a">>]}

Assignment(tgid, bid) == [tgid |-> tgid, bid |-> bid]

StoredAssignments ==
    {<<>>, <<Assignment(1, 1)>>, <<Assignment(1, 1), Assignment(2, 1)>>,
     <<Assignment(1, 1), Assignment(2, 2)>>}

InitGet ==
    /\ booking = StoredBookings
    /\ tag = SeedTags
    /\ tagassignment \in StoredAssignments
    /\ now = 0
    /\ resp = Idle
    /\ held = NoRecord
    /\ rbooking = {}
    /\ task = {}

\* a request is taken up only when the previous response has been handed over
Arriving(requests) == IF resp = Idle THEN requests ELSE {}

\* get_bookings with any combination of filters
get_bookings_filtered == \E p \in Arriving(GetBookingsParams) : get_bookings(p)

NextGet ==
    \/ get_bookings_filtered
    \/ Return

SpecGet == InitGet /\ [][NextGet]_vars

(***************************************************************************)
(* Properties of get_bookings                                              *)
(***************************************************************************)
RowsOf(body) == {body[i] : i \in 1..Len(body)}

\* C1: get_bookings with no filter supplied composes SELECT * FROM booking WHERE
\* TRUE with no join, no further predicate and no bound value, and returns every
\* row of the booking table, each once.
C1_NoFilter ==
    (resp.op = "get_bookings" /\ resp.req = NoFilter) =>
        /\ resp.query.sql = <<"SELECT * FROM booking", " WHERE TRUE">>
        /\ resp.query.args = <<>>
        /\ resp.outcome = "ok"
        /\ RowsOf(resp.body) = booking
        /\ Len(resp.body) = Cardinality(booking)

C1_Witness ==
    /\ resp.op = "get_bookings"
    /\ resp.req = NoFilter
    /\ Cardinality(booking) = 2
    /\ Len(resp.body) = 2

\* C2: get_bookings with a tag filter that is present and empty composes no join
\* and no IN predicate and returns what the same request without the tag field
\* returns.
C2_EmptyTagListIgnored ==
    (resp.op = "get_bookings" /\ resp.req.tag = Some(<<>>)) =>
        /\ Count(resp.query.sql, JoinFragment) = 0
        /\ Count(resp.query.sql, " AND t.name IN (") = 0
        /\ resp.outcome = "ok"
        /\ resp.body =
             ExecSelectBookings(GetBookingsQuery([resp.req EXCEPT !.tag = None]), Database).rows

\* C3: for a tag list of N >= 1 names the statement of get_bookings holds the
\* join once and one t.name IN ( predicate, closed by ")", with N placeholders
\* separated by N - 1 commas, none leading and none trailing, bound to the names
\* in the order supplied.
C3_TagList ==
    (resp.op = "get_bookings" /\ IsSome(resp.req.tag) /\ Unwrap(resp.req.tag) # <<>>) =>
        LET tags == Unwrap(resp.req.tag)
            N == Len(tags)
            sql == resp.query.sql
            args == resp.query.args
            list == SubSeq(sql, Position(sql, " AND t.name IN (") + 1, Len(sql))
        IN /\ Count(sql, JoinFragment) = 1 /\ sql[2] = JoinFragment
           /\ Count(sql, " AND t.name IN (") = 1
           /\ Count(sql, ",") = N - 1
           /\ Len(list) = 2 * N
           /\ \A i \in 1..N : list[2 * i - 1] = "?"
           /\ \A i \in 1..(N - 1) : list[2 * i] = ","
           /\ list[2 * N] = ")"
           /\ Len(args) >= N
           /\ \A i \in 1..N : args[Len(args) - N + i] = StrV(tags[i])
           /\ resp.outcome = "ok"

C3_Witness ==
    /\ resp.op = "get_bookings"
    /\ resp.req.tag = Some(<< <<"y">>, <<"x">> >>)
    /\ IsSome(resp.req.id)
    /\ Len(resp.body) = 1
    /\ Count(resp.query.sql, ",") = 1

(***************************************************************************)
(* post_tagassignment                                                      *)
(***************************************************************************)
\* the loop over params.tag_id.iter().enumerate(); i counts from 0 as in the code.
\* A comma follows every tuple, the last one too.
RECURSIVE PushTuplesTrailingComma(_, _, _, _)
PushTuplesTrailingComma(qb, tag_id, booking_id, i) ==
    IF i >= Len(tag_id) THEN qb
    ELSE LET q1 == Push(PushBind(Push(PushBind(Push(qb, " ("), IntV(tag_id[i + 1])), ", "),
                                 IntV(booking_id)),
                        ")")
             q2 == IF Len(tag_id) > i THEN Push(q1, ",") ELSE q1
         IN PushTuplesTrailingComma(q2, tag_id, booking_id, i + 1)

RECURSIVE PushTuples(_, _, _, _)
PushTuples(qb, tag_id, booking_id, i) ==
    IF i >= Len(tag_id) THEN qb
    ELSE LET q1 == Push(PushBind(Push(PushBind(Push(qb, " ("), IntV(tag_id[i + 1])), ", "),
                                 IntV(booking_id)),
                        ")")
             q2 == IF Len(tag_id) - 1 > i THEN Push(q1, ",") ELSE q1
         IN PushTuples(q2, tag_id, booking_id, i + 1)

PostTagassignmentQuery(p) ==
    Push(PushTuples(QueryBuilderNew("INSERT INTO tagassignment (tgid, bid) VALUES"),
                    p.tag_id, p.booking_id, 0),
         " RETURNING tgid, bid;")

\* tuple ("," tuple)* starting at fragment i, n tuples read so far
RECURSIVE ParseTuples(_, _, _)
ParseTuples(sql, i, n) ==
    IF /\ i + 4 <= Len(sql)
       /\ SubSeq(sql, i, i + 4) = <<" (", "?", ", ", "?", ")">>
    THEN IF i + 5 <= Len(sql) /\ sql[i + 5] = ","
         THEN ParseTuples(sql, i + 6, n + 1)
         ELSE [ok |-> TRUE, n |-> n + 1, i |-> i + 5]
    ELSE [ok |-> FALSE, n |-> n, i |-> i]

\* The statement inserts its tuples in order into the table as the transaction
\* sees it; storage may reject tuple number `rejected` (0: none is rejected), and
\* then the table holds the tuples before it.
ExecInsertAssignments(qb, table, rejected) ==
    LET sql == qb.sql
        parsed == IF Len(sql) >= 1 /\ sql[1] = "INSERT INTO tagassignment (tgid, bid) VALUES"
                  THEN ParseTuples(sql, 2, 0)
                  ELSE [ok |-> FALSE, n |-> 0, i |-> 0]
        wellFormed == /\ parsed.ok
                      /\ Len(sql) = parsed.i
                      /\ sql[parsed.i] = " RETURNING tgid, bid;"
                      /\ Len(qb.args) = 2 * parsed.n
        rows == [j \in 1..parsed.n |-> Assignment(qb.args[2 * j - 1][2], qb.args[2 * j][2])]
    IN IF ~wellFormed
       THEN [ok |-> FALSE, err |-> DatabaseError, work |-> table, rows |-> <<>>]
       ELSE IF rejected \in 1..parsed.n
       THEN [ok |-> FALSE, err |-> <<"Database", "tuple", rejected>>,
             work |-> table \o SubSeq(rows, 1, rejected - 1), rows |-> <<>>]
       ELSE [ok |-> TRUE, err |-> NoError, work |-> table \o rows, rows |-> rows]

\* tx is dropped without commit and the transaction rolls back: what it wrote is kept
RollbackKeepsWork(before, work) == work

\* tx is dropped without commit and the transaction rolls back
Rollback(before, work) == before

Faults == {"none", "begin", "commit"}

post_tagassignment(p) ==
    /\ resp = Idle
    /\ Len(tagassignment) + Len(p.tag_id) <= MaxAssign
    /\ \E fault \in Faults, rejected \in 0..Len(p.tag_id) :
         /\ fault # "none" => rejected = 0
         /\ LET qb == PostTagassignmentQuery(p)
                result == ExecInsertAssignments(qb, tagassignment, rejected)
            IN IF fault = "begin"
               THEN /\ tagassignment' = tagassignment
                    /\ resp' = Response("post_tagassignment", p, "error",
                                        <<"Database", "begin">>, NoQuery, FALSE, <<>>)
               ELSE IF ~result.ok
               THEN /\ tagassignment' = Rollback(tagassignment, result.work)
                    /\ resp' = Response("post_tagassignment", p, "error", result.err, qb,
                                        TRUE, <<>>)
               ELSE IF fault = "commit"
               THEN /\ tagassignment' = Rollback(tagassignment, result.work)
                    /\ resp' = Response("post_tagassignment", p, "error",
                                        <<"Database", "commit">>, qb, TRUE, <<>>)
               ELSE /\ tagassignment' = result.work
                    /\ resp' = Response("post_tagassignment", p, "created", NoError, qb,
                                        TRUE, result.rows)
    /\ UNCHANGED <<booking, tag, now, held, rbooking, task>>

PostTagassignmentParams == [tag_id : SeqsUpTo(Ids, MaxTagList), booking_id : Ids]

(***************************************************************************)
(* SpecAssign: post_tagassignment on a store that starts empty             *)
(***************************************************************************)
NextAssign ==
    \/ \E p \in PostTagassignmentParams : post_tagassignment(p)
    \/ Return

SpecAssign == Init /\ [][NextAssign]_vars

\* C7: when post_tagassignment fails, on any tuple of the batch, at begin or at
\* commit, the tagassignment table is what it was before the request and the
\* caller gets one error and no row.
C7_AllOrNothing ==
    [][(resp = Idle /\ resp'.op = "post_tagassignment" /\ resp'.outcome # "created") =>
        /\ tagassignment' = tagassignment
        /\ resp'.outcome = "error"
        /\ resp'.err # NoError
        /\ resp'.body = <<>>]_vars

\* the second tuple of a batch of two was rejected after the first was inserted
C7_Witness ==
    /\ resp.op = "post_tagassignment"
    /\ resp.outcome = "error"
    /\ resp.err = <<"Database", "tuple", 2>>
    /\ Len(resp.req.tag_id) = 2
    /\ tagassignment = <<>>

\* C8: for booking id B and N tag ids post_tagassignment composes one INSERT
\* with N (tag id, B) tuples in list order, N - 1 commas between the tuples and
\* none after the last; when it succeeds it returns, and the table has gained,
\* the N rows (tag id, B) in that order.
C8_MultiRowInsert ==
    resp.op = "post_tagassignment" /\ resp.executed =>
        LET p == resp.req
            N == Len(p.tag_id)
            sql == resp.query.sql
            args == resp.query.args
        IN /\ sql[1] = "INSERT INTO tagassignment (tgid, bid) VALUES"
           /\ Count(sql, "INSERT INTO tagassignment (tgid, bid) VALUES") = 1
           /\ Len(sql) = 1 + 5 * N + (IF N = 0 THEN 0 ELSE N - 1) + 1
           /\ \A j \in 1..N :
                SubSeq(sql, 6 * j - 4, 6 * j) = <<" (", "?", ", ", "?", ")">>
           /\ \A j \in 1..(N - 1) : sql[6 * j + 1] = ","
           /\ Count(sql, ",") = (IF N = 0 THEN 0 ELSE N - 1)
           /\ sql[Len(sql)] = " RETURNING tgid, bid;"
           /\ Len(args) = 2 * N
           /\ \A j \in 1..N : args[2 * j - 1] = IntV(p.tag_id[j]) /\ args[2 * j] = IntV(p.booking_id)
           /\ resp.outcome = "created" =>
                /\ Len(resp.body) = N
                /\ \A j \in 1..N : resp.body[j] = Assignment(p.tag_id[j], p.booking_id)
                /\ Len(tagassignment) >= N
                /\ SubSeq(tagassignment, Len(tagassignment) - N + 1, Len(tagassignment))
                     = resp.body

C8_Witness ==
    /\ resp.op = "post_tagassignment"
    /\ resp.outcome = "created"
    /\ resp.req.tag_id = <<2, 1>>
    /\ resp.body = <<Assignment(2, resp.req.booking_id), Assignment(1, resp.req.booking_id)>>
    /\ Count(resp.query.sql, ",") = 1

(***************************************************************************)
(* records.rs: Booking, NewBooking and the wall clock                      *)
(***************************************************************************)
Ok(v) == <<"Ok", v>>
Err(message) == <<"Err", message>>
IsOk(r) == r[1] = "Ok"

is_finished(self) == IsSome(self.enddate)

\* finish without the is_finished test
FinishOverwrites(self, time) ==
    Ok([self EXCEPT !.enddate = Some(time)])

\* Booking::finish; time is the reading of SystemTime::now() in milliseconds
Finish(self, time) ==
    IF ~is_finished(self)
    THEN Ok([self EXCEPT !.enddate = Some(time)])
    ELSE Err("Booking is already finished")

\* impl Default for Booking
BookingDefault(time) == [id |-> 0, tid |-> 0, startdate |-> time, enddate |-> None]

\* #[derive(Default)] for NewBooking
NewBookingDefault == [tid |-> 0, startdate |-> 0, enddate |-> None]

\* the caller builds a Booking with Booking::default()
booking_default ==
    /\ resp = Idle
    /\ held' = Some(BookingDefault(now))
    /\ resp' = Response("default", <<>>, "ok", NoError, NoQuery, FALSE, <<BookingDefault(now)>>)
    /\ UNCHANGED <<booking, tag, tagassignment, now, rbooking, task>>

\* the caller calls finish on the Booking it holds; finish takes self by value,
\* so after an Err the caller holds no Booking
finish ==
    /\ resp = Idle
    /\ IsSome(held)
    /\ LET self == Unwrap(held)
           result == Finish(self, now)
       IN IF IsOk(result)
          THEN /\ held' = Some(result[2])
               /\ resp' = Response("finish", self, "ok", NoError, NoQuery, FALSE, <<result[2]>>)
          ELSE /\ held' = NoRecord
               /\ resp' = Response("finish", self, "error", <<result[2]>>, NoQuery, FALSE, <<>>)
    /\ UNCHANGED <<booking, tag, tagassignment, now, rbooking, task>>

\* Record::save for NewBooking
new_booking_save ==
    /\ resp = Idle
    /\ NextRowId(rbooking) <= MaxId
    /\ LET self == NewBookingDefault
           row == [id |-> NextRowId(rbooking), tid |-> self.tid,
                   startdate |-> self.startdate, enddate |-> self.enddate]
       IN /\ rbooking' = rbooking \cup {row}
          /\ held' = Some(row)
          /\ resp' = Response("new_booking_save", self, "ok", NoError, NoQuery, TRUE, <<row>>)
    /\ UNCHANGED <<booking, tag, tagassignment, now, task>>

\* Record::save for Booking
booking_save ==
    /\ resp = Idle
    /\ IsSome(held)
    /\ LET self == Unwrap(held)
           hit == {r \in rbooking : r.id = self.id}
       IN /\ rbooking' = (rbooking \ hit) \cup {self : r \in hit}
          /\ resp' = Response("booking_save", self, "ok", NoError, NoQuery, TRUE, <<self>>)
    /\ UNCHANGED <<booking, tag, tagassignment, now, held, task>>

\* ExistingRecord::from_id for Booking
booking_from_id(id) ==
    /\ resp = Idle
    /\ LET found == {r \in rbooking : r.id = id}
       IN IF found # {}
          THEN /\ held' = Some(CHOOSE r \in found : TRUE)
               /\ resp' = Response("from_id", id, "ok", NoError, NoQuery, TRUE,
                                   SortById(found))
          ELSE /\ held' = held
               /\ resp' = Response("from_id", id, "error", RowNotFound, NoQuery, TRUE, <<>>)
    /\ UNCHANGED <<booking, tag, tagassignment, now, rbooking, task>>

\* SystemTime is the wall clock: it advances, and it can be set back
ClockAdvance ==
    /\ resp = Idle
    /\ now < MaxTime
    /\ now' = now + 1
    /\ UNCHANGED <<booking, tag, tagassignment, resp, held, rbooking, task>>

ClockSetBack ==
    /\ resp = Idle
    /\ \E t \in Times : t < now /\ now' = t
    /\ UNCHANGED <<booking, tag, tagassignment, resp, held, rbooking, task>>

(***************************************************************************)
(* SpecRecord: a caller of records.rs working on Bookings                  *)
(***************************************************************************)
NextRecord ==
    \/ booking_default
    \/ finish
    \/ new_booking_save
    \/ booking_save
    \/ \E id \in Ids : booking_from_id(id)
    \/ ClockAdvance
    \/ ClockSetBack
    \/ Return

SpecRecord == Init /\ [][NextRecord]_vars

\* C9: finish on a Booking whose enddate is set returns an error, hands back no
\* Booking and writes nothing to storage; a finish that succeeds was called on a
\* Booking without enddate, so no finish replaces an enddate that is set.
C9_FinishOnce ==
    [][(resp = Idle /\ resp'.op = "finish") =>
        LET self == Unwrap(held)
        IN /\ resp'.req = self
           /\ rbooking' = rbooking
           /\ self.enddate # None =>
                /\ resp'.outcome = "error"
                /\ resp'.body = <<>>
                /\ held' = NoRecord
           /\ resp'.outcome = "ok" =>
                /\ self.enddate = None
                /\ held' = Some(resp'.body[1])
                /\ resp'.body[1].enddate # None]_vars

\* a finish was rejected on a Booking that an earlier finish had ended and that
\* was saved and loaded again
C9_Witness ==
    /\ resp.op = "finish"
    /\ resp.outcome = "error"
    /\ resp.req.enddate = Some(MaxTime)
    /\ resp.req.id = 1
    /\ \E r \in rbooking : r.id = 1 /\ r.enddate = Some(MaxTime)

\* C10: finish on a Booking without enddate succeeds and sets enddate to a
\* timestamp that is not earlier than the startdate of the Booking.
C10_EndNotBeforeStart ==
    (resp.op = "finish" /\ resp.req.enddate = None) =>
        /\ resp.outcome = "ok"
        /\ IsSome(resp.body[1].enddate)
        /\ Unwrap(resp.body[1].enddate) >= resp.body[1].startdate

(***************************************************************************)
(* delete_booking and delete_tag: a static statement, run with execute     *)
(***************************************************************************)
DeleteBookingQuery(id) ==
    [sql |-> <<"DELETE FROM booking WHERE id = $1">>, args |-> <<IntV(id)>>]

DeleteTagQuery(id) ==
    [sql |-> <<"DELETE FROM tag WHERE id = $1">>, args |-> <<IntV(id)>>]

\* a DELETE that lost its WHERE clause
ExecDeleteEveryRow(qb, text, table) ==
    [ok |-> TRUE, table |-> {}, affected |-> Cardinality(table)]

\* DELETE FROM <table> WHERE id = $1: the rows left and the number of rows removed
ExecDelete(qb, text, table) ==
    IF qb.sql # <<text>> \/ Len(qb.args) # 1
    THEN [ok |-> FALSE, table |-> table, affected |-> 0]
    ELSE LET hit == {r \in table : r.id = qb.args[1][2]}
         IN [ok |-> TRUE, table |-> table \ hit, affected |-> Cardinality(hit)]

\* what the schema does to the assignments that refer to a deleted row: nothing
ReferentialAction(assignments, column, id) == assignments

\* execute(..).await?; Ok(()): the number of affected rows is not looked at
Execute(op, p, qb, result) ==
    IF ~result.ok THEN Response(op, p, "error", DatabaseError, qb, TRUE, <<>>)
    ELSE Response(op, p, "ok", NoError, qb, TRUE, <<>>)

delete_booking(p) ==
    /\ resp = Idle
    /\ LET qb == DeleteBookingQuery(p.id)
           result == ExecDelete(qb, "DELETE FROM booking WHERE id = $1", booking)
       IN /\ booking' = result.table
          /\ tagassignment' = ReferentialAction(tagassignment, "bid", p.id)
          /\ resp' = Execute("delete_booking", p, qb, result)
    /\ UNCHANGED <<tag, now, held, rbooking, task>>

delete_tag(p) ==
    /\ resp = Idle
    /\ LET qb == DeleteTagQuery(p.id)
           result == ExecDelete(qb, "DELETE FROM tag WHERE id = $1", tag)
       IN /\ tag' = result.table
          /\ tagassignment' = ReferentialAction(tagassignment, "tgid", p.id)
          /\ resp' = Execute("delete_tag", p, qb, result)
    /\ UNCHANGED <<booking, now, held, rbooking, task>>

DeleteParams == [id : Ids]

(***************************************************************************)
(* SpecDelete: the requests that name one row by id, on a store that holds *)
(* two bookings, two tags and up to two assignments                        *)
(***************************************************************************)
\* updates of a booking that supply at most the enddate
PatchEnddateParams ==
    {p \in PatchBookingParams :
        p.startdate = None /\ p.description = None /\ p.enddate \in Opt({MaxTime})}

NextDelete ==
    \/ \E p \in DeleteParams : delete_booking(p)
    \/ \E p \in DeleteParams : delete_tag(p)
    \/ \E p \in PatchEnddateParams : patch_booking(p)
    \/ \E p \in PatchTagParams : patch_tag(p)
    \/ \E id \in Ids : booking_from_id(id)
    \/ Return

SpecDelete == InitGet /\ [][NextDelete]_vars

RowIds(table) == {r.id : r \in table}

\* C11: an update that supplies a field, a delete, or a fetch by id, aimed at an
\* id that no row of the table has, answers with the not-found error, not with
\* success and not with an empty list; this holds for patch_booking, patch_tag,
\* delete_booking, delete_tag and from_id.
C11_NotFound ==
    [][(/\ resp = Idle
        /\ \/ resp'.op = "patch_booking" /\ resp'.req.enddate # None
                /\ resp'.req.id \notin RowIds(booking)
           \/ resp'.op = "patch_tag" /\ resp'.req.name # None
                /\ resp'.req.id \notin RowIds(tag)
           \/ resp'.op = "delete_booking" /\ resp'.req.id \notin RowIds(booking)
           \/ resp'.op = "delete_tag" /\ resp'.req.id \notin RowIds(tag)
           \/ resp'.op = "from_id" /\ resp'.req \notin RowIds(rbooking))
       => /\ resp'.outcome = "error"
          /\ resp'.err = RowNotFound
          /\ resp'.body = <<>>]_vars

\* C18: delete_booking(id) removes the rows of booking with that id and nothing
\* else, delete_tag(id) the rows of tag with that id and nothing else; every
\* other row of the table, the other table and every row of tagassignment, those
\* that refer to the deleted id included, stay as they were.
C18_DeleteFrame ==
    [][/\ (resp = Idle /\ resp'.op = "delete_booking") =>
            /\ booking' = {r \in booking : r.id # resp'.req.id}
            /\ tag' = tag
            /\ tagassignment' = tagassignment
            /\ rbooking' = rbooking
       /\ (resp = Idle /\ resp'.op = "delete_tag") =>
            /\ tag' = {r \in tag : r.id # resp'.req.id}
            /\ booking' = booking
            /\ tagassignment' = tagassignment
            /\ rbooking' = rbooking]_vars

\* booking 1 was deleted, booking 2 is still stored and so are the two
\* assignments of booking 1
C18_Witness ==
    /\ resp.op = "delete_booking"
    /\ resp.req.id = 1
    /\ resp.outcome = "ok"
    /\ RowIds(booking) = {2}
    /\ tagassignment = <<Assignment(1, 1), Assignment(2, 1)>>

(***************************************************************************)
(* The columns of the rows a booking statement yields                      *)
(***************************************************************************)
BookingColumns == <<"id", "startdate", "enddate", "des">>
TagassignmentColumns == <<"tgid", "bid">>
TagColumns == <<"id", "name">>

\* SELECT * yields the columns of every table of the FROM clause, in the order
\* of the tables; RETURNING yields the columns it lists
StatementColumns(qb) ==
    LET sql == qb.sql
    IN IF sql = <<>> THEN <<>>
       ELSE IF sql[1] = "SELECT * FROM booking"
       THEN IF Len(sql) >= 2 /\ sql[2] = JoinFragment
            THEN BookingColumns \o TagassignmentColumns \o TagColumns
            ELSE BookingColumns
       ELSE IF sql[Len(sql)] \in {BookingReturning, ")" \o BookingReturning}
       THEN BookingColumns
       ELSE <<>>

\* C12: every statement that get_bookings, post_booking or patch_booking runs
\* yields rows with exactly the columns id, startdate, enddate, des; get_bookings
\* yields them with a tag filter (and so the join) as without.
C12_BookingColumns ==
    (resp.op \in {"get_bookings", "post_booking", "patch_booking"} /\ resp.executed) =>
        StatementColumns(resp.query) = <<"id", "startdate", "enddate", "des">>

(***************************************************************************)
(* Properties of the text that get_bookings composes                       *)
(***************************************************************************)
When(cond, seq) == IF cond THEN seq ELSE <<>>

\* the pushed text without the placeholders and the commas between them
TextOf(sql) ==
    LET IsText(f) == f \notin {"?", ","}
    IN SelectSeq(sql, IsText)

\* C16: after WHERE TRUE, get_bookings emits the predicate of every supplied
\* field and of no other, each behind AND, in the order id =, startdate >
\* startdate_min, startdate < startdate_max, enddate > enddate_min, enddate >
\* enddate_max, des LIKE, t.name IN, and binds the supplied values in that order;
\* with every field supplied all seven are there together with the join.
C16_Predicates ==
    resp.op = "get_bookings" =>
        LET p == resp.req
            tags == IF IsSome(p.tag) THEN Unwrap(p.tag) ELSE <<>>
            idText == IF IsSome(p.tag) THEN <<" AND ", "b.", "id = ">>
                      ELSE <<" AND ", "id = ">>
            head == IF IsSome(p.tag)
                    THEN <<"SELECT * FROM booking",
                           " b INNER JOIN tagassignment tg ON b.id = tg.bid INNER JOIN tag t ON t.id = tg.tgid",
                           " WHERE TRUE">>
                    ELSE <<"SELECT * FROM booking", " WHERE TRUE">>
        IN /\ TextOf(resp.query.sql) =
                head
                \o When(IsSome(p.id), idText)
                \o When(IsSome(p.startdate_min), <<" AND startdate > ">>)
                \o When(IsSome(p.startdate_max), <<" AND startdate < ">>)
                \o When(IsSome(p.enddate_min), <<" AND enddate > ">>)
                \o When(IsSome(p.enddate_max), <<" AND enddate > ">>)
                \o When(IsSome(p.description_contains),
                        <<" AND des LIKE CONCAT('%', ", ", '%')">>)
                \o When(IsSome(p.tag), <<" AND t.name IN (", ")">>)
           /\ resp.query.args =
                When(IsSome(p.id), <<<<"i64", p.id[2]>>>>)
                \o When(IsSome(p.startdate_min), <<<<"i64", p.startdate_min[2]>>>>)
                \o When(IsSome(p.startdate_max), <<<<"i64", p.startdate_max[2]>>>>)
                \o When(IsSome(p.enddate_min), <<<<"i64", p.enddate_min[2]>>>>)
                \o When(IsSome(p.enddate_max), <<<<"i64", p.enddate_max[2]>>>>)
                \o When(IsSome(p.description_contains),
                        <<<<"str", p.description_contains[2]>>>>)
                \o [i \in 1..Len(tags) |-> <<"str", tags[i]>>]

\* all seven filters supplied, enddate_min and enddate_max with different values
C16_Witness ==
    /\ resp.op = "get_bookings"
    /\ resp.outcome = "ok"
    /\ \A f \in DOMAIN resp.req : IsSome(resp.req[f])
    /\ resp.req.tag = Some(<<<<"x">>, <<"y">>>>)
    /\ resp.req.enddate_min = Some(0)
    /\ resp.req.enddate_max = Some(MaxTime)
    /\ Count(resp.query.sql, " AND enddate > ") = 2
    /\ Len(resp.query.args) = 8

\* C17: the statement of get_bookings holds the join exactly when the tag filter
\* is present, and the id predicate is written b.id exactly when the join is
\* there (and id otherwise).
C17_JoinAndQualifier ==
    resp.op = "get_bookings" =>
        LET sql == resp.query.sql
            join == " b INNER JOIN tagassignment tg ON b.id = tg.bid INNER JOIN tag t ON t.id = tg.tgid"
            joined == Count(sql, join) = 1
        IN /\ Count(sql, join) <= 1
           /\ joined <=> resp.req.tag # None
           /\ joined => sql[2] = join
           /\ Count(sql, "id = ") = Supplied(resp.req.id)
           /\ Count(sql, "b.") = (IF joined THEN Supplied(resp.req.id) ELSE 0)
           /\ Count(sql, "b.") = 1 => Position(sql, "b.") + 1 = Position(sql, "id = ")

\* an id filter and a tag filter together: the qualified predicate runs and
\* finds booking 1, which carries tag x
C17_Witness ==
    /\ resp.op = "get_bookings"
    /\ resp.req.id = Some(1)
    /\ resp.req.tag = Some(<<<<"x">>>>)
    /\ resp.outcome = "ok"
    /\ Len(resp.body) = 1
    /\ resp.body[1].id = 1
    /\ Count(resp.query.sql, "b.") = 1

(***************************************************************************)
(* get_tags and get_tagassignment: the statement                           *)
(***************************************************************************)
GetTagsQuery(p) ==
    LET q0 == QueryBuilderNew("SELECT * FROM tag WHERE TRUE")
        q1 == IF IsSome(p.id)
              THEN PushBind(Push(q0, " AND id = "), IntV(Unwrap(p.id)))
              ELSE q0
    IN IF IsSome(p.name)
       THEN PushBind(Push(q1, " AND name = "), StrV(Unwrap(p.name)))
       ELSE q1

GetTagsParams == [id : Opt(Ids), name : Opt(TagNames)]

GetTagassignmentQuery(p) ==
    LET q0 == QueryBuilderNew("SELECT * FROM tagassignment")
    IN IF IsSome(p.booking_id) \/ IsSome(p.tag_id)
       THEN LET q1 == Push(q0, " WHERE")
                q2 == IF IsSome(p.tag_id)
                      THEN PushBind(Push(q1, " tgid = "), IntV(Unwrap(p.tag_id)))
                      ELSE q1
                tgid_added == IsSome(p.tag_id)
            IN IF IsSome(p.booking_id)
               THEN PushBind(Push(IF tgid_added THEN Push(q2, " AND") ELSE q2, " bid = "),
                             IntV(Unwrap(p.booking_id)))
               ELSE q2
       ELSE q0

GetTagassignmentParams == [booking_id : Opt(Ids), tag_id : Opt(Ids)]

\* the updates compose a statement only when a field is supplied
PatchBookingStatement(p) ==
    IF PatchBookingIsNoop(p) THEN NoQuery ELSE PatchBookingQuery(p)

PatchTagStatement(p) ==
    IF IsSome(p.name) THEN PatchTagQuery(Unwrap(p.name), p.id) ELSE NoQuery

(***************************************************************************)
(* SpecCompose: the statement that each handler composes, as a function of *)
(* the request and, for post_booking, of the reading of the clock.  The    *)
(* statement is composed and not run.                                      *)
(***************************************************************************)
InitCompose ==
    /\ booking = {}
    /\ tag = {}
    /\ tagassignment = <<>>
    /\ now \in Times
    /\ resp = Idle
    /\ held = NoRecord
    /\ rbooking = {}
    /\ task = {}

\* the statement as it stands when the handler calls build_query_as
Composed(op, p, qb) == Response(op, p, "composed", NoError, qb, FALSE, <<>>)

get_bookings_statement ==
    /\ resp = Idle
    /\ \E p \in GetBookingsParams :
         resp' = Composed("get_bookings", p, GetBookingsQuery(p))
    /\ UNCHANGED <<booking, tag, tagassignment, now, held, rbooking, task>>

get_tags_statement(p) ==
    /\ resp = Idle
    /\ resp' = Composed("get_tags", p, GetTagsQuery(p))
    /\ UNCHANGED <<booking, tag, tagassignment, now, held, rbooking, task>>

get_tagassignment_statement(p) ==
    /\ resp = Idle
    /\ resp' = Composed("get_tagassignment", p, GetTagassignmentQuery(p))
    /\ UNCHANGED <<booking, tag, tagassignment, now, held, rbooking, task>>

patch_booking_statement(p) ==
    /\ resp = Idle
    /\ resp' = Composed("patch_booking", p, PatchBookingStatement(p))
    /\ UNCHANGED <<booking, tag, tagassignment, now, held, rbooking, task>>

patch_tag_statement(p) ==
    /\ resp = Idle
    /\ resp' = Composed("patch_tag", p, PatchTagStatement(p))
    /\ UNCHANGED <<booking, tag, tagassignment, now, held, rbooking, task>>

post_booking_statement(p) ==
    /\ resp = Idle
    /\ resp' = Composed("post_booking", p, PostBookingQuery(p, now))
    /\ UNCHANGED <<booking, tag, tagassignment, now, held, rbooking, task>>

post_tagassignment_statement(p) ==
    /\ resp = Idle
    /\ resp' = Composed("post_tagassignment", p, PostTagassignmentQuery(p))
    /\ UNCHANGED <<booking, tag, tagassignment, now, held, rbooking, task>>

NextCompose ==
    \/ get_bookings_statement
    \/ \E p \in GetTagsParams : get_tags_statement(p)
    \/ \E p \in GetTagassignmentParams : get_tagassignment_statement(p)
    \/ \E p \in PatchBookingParams : patch_booking_statement(p)
    \/ \E p \in PatchTagParams : patch_tag_statement(p)
    \/ \E p \in PostBookingParams : post_booking_statement(p)
    \/ \E p \in PostTagassignmentParams : post_tagassignment_statement(p)
    \/ Return

SpecCompose == InitCompose /\ [][NextCompose]_vars

(***************************************************************************)
(* Properties of the composed statements                                   *)
(***************************************************************************)
\* every text literal that a handler pushes
FixedFragments ==
    {"SELECT * FROM booking",
     " b INNER JOIN tagassignment tg ON b.id = tg.bid INNER JOIN tag t ON t.id = tg.tgid",
     " WHERE TRUE", " AND ", "b.", "id = ", " AND startdate > ", " AND startdate < ",
     " AND enddate > ", " AND des LIKE CONCAT('%', ", ", '%')", " AND t.name IN (", ",", ")",
     "UPDATE booking ", "SET ", "startdate = ", "enddate = ", "des = ", ", ", " WHERE id = ",
     " RETURNING id, startdate, enddate, des",
     "INSERT INTO BOOKING (startdate", ", enddate", ", des", ") VALUES (",
     ") RETURNING id, startdate, enddate, des",
     "SELECT * FROM tag WHERE TRUE", " AND id = ", " AND name = ",
     "", "UPDATE tag SET name = ", " RETURNING id, name",
     "INSERT INTO tagassignment (tgid, bid) VALUES", " (", " RETURNING tgid, bid;",
     "SELECT * FROM tagassignment", " WHERE", " tgid = ", " AND", " bid = "}

Int64(o) == When(IsSome(o), <<<<"i64", o[2]>>>>)
Text(o) == When(IsSome(o), <<<<"str", o[2]>>>>)

\* the values of a request that go into its statement, each once, in the order
\* in which the handler reads the fields
SuppliedValues(op, p) ==
    CASE op = "get_bookings" ->
           Int64(p.id) \o Int64(p.startdate_min) \o Int64(p.startdate_max)
           \o Int64(p.enddate_min) \o Int64(p.enddate_max) \o Text(p.description_contains)
           \o (IF IsSome(p.tag) THEN [i \in 1..Len(p.tag[2]) |-> <<"str", p.tag[2][i]>>]
               ELSE <<>>)
      [] op = "get_tags" -> Int64(p.id) \o Text(p.name)
      [] op = "get_tagassignment" -> Int64(p.tag_id) \o Int64(p.booking_id)
      [] op = "patch_booking" ->
           Int64(p.startdate) \o Int64(p.enddate) \o Text(p.description)
           \o <<<<"i64", p.id>>>>
      [] op = "patch_tag" -> Text(p.name) \o <<<<"i64", p.id>>>>
      [] op = "post_booking" -> Int64(p.enddate) \o Text(p.description)
      [] op = "post_tagassignment" ->
           [i \in 1..Len(p.tag_id) |-> <<"i64", p.tag_id[i]>>] \o <<<<"i64", p.booking_id>>>>

\* the values a statement binds, placeholder by placeholder: the supplied values,
\* behind the reading of the clock in post_booking, and in post_tagassignment
\* each tag id followed by the booking id
ExpectedBinds(op, p, time) ==
    CASE op = "post_booking" -> <<<<"i64", time>>>> \o SuppliedValues(op, p)
      [] op = "post_tagassignment" ->
           [i \in 1..(2 * Len(p.tag_id)) |->
               IF i % 2 = 1 THEN <<"i64", p.tag_id[(i + 1) \div 2]>>
               ELSE <<"i64", p.booking_id>>]
      [] OTHER -> SuppliedValues(op, p)

Range(seq) == {seq[i] : i \in 1..Len(seq)}

\* C13: the text of every composed statement is made of fixed fragments and
\* placeholders only, it has as many placeholders as bound values, and the bound
\* values are the supplied values in the order their placeholders were pushed:
\* each supplied value once, except that post_tagassignment binds the booking id
\* once for every tuple (and not at all for an empty list) and post_booking
\* binds the reading of the clock first.
C13_BindsOnly ==
    (resp.outcome = "composed" /\ resp.query # NoQuery) =>
        /\ \A f \in Range(resp.query.sql) : f = "?" \/ f \in FixedFragments
        /\ Count(resp.query.sql, "?") = Len(resp.query.args)
        /\ resp.query.args = ExpectedBinds(resp.op, resp.req, now)

\* two tuples: the booking id is bound behind each tag id
C13_Witness ==
    /\ resp.op = "post_tagassignment"
    /\ resp.outcome = "composed"
    /\ resp.req.tag_id = <<2, 1>>
    /\ resp.req.booking_id = 2
    /\ resp.query.args = <<IntV(2), IntV(2), IntV(1), IntV(2)>>
    /\ Count(resp.query.sql, "?") = 4

\* C13 as stated: in every composed statement the text is made of fixed
\* fragments, there are as many placeholders as bound values, and each supplied
\* value occurs exactly once among the bound values.
C13_EachValueOnce ==
    (resp.outcome = "composed" /\ resp.query # NoQuery) =>
        LET user == SuppliedValues(resp.op, resp.req)
            bound == IF resp.op = "post_booking" THEN Tail(resp.query.args)
                     ELSE resp.query.args
        IN /\ \A f \in Range(resp.query.sql) : f = "?" \/ f \in FixedFragments
           /\ Count(resp.query.sql, "?") = Len(resp.query.args)
           /\ \A v \in Range(user) \cup Range(bound) : Count(bound, v) = Count(user, v)

ColumnOfInsert(fragment) ==
    CASE fragment = "INSERT INTO BOOKING (startdate" -> "startdate"
      [] fragment = ", enddate" -> "enddate"
      [] fragment = ", des" -> "des"
      [] OTHER -> "other"

\* C14: post_booking, whichever of enddate and description are supplied, lists
\* as many columns as it lists values, among startdate, enddate and des and
\* never id, and the k-th value is the one of the k-th column: the reading of
\* the clock for startdate, the supplied enddate for enddate, the supplied
\* description for des.
C14_InsertLockstep ==
    resp.op = "post_booking" =>
        LET sql == resp.query.sql
            p == resp.req
            at == Position(sql, ") VALUES (")
            columns == [k \in 1..(at - 1) |-> ColumnOfInsert(sql[k])]
            values == SubSeq(sql, at + 1, Len(sql) - 1)
            ValueOf(column) ==
                CASE column = "startdate" -> <<"i64", now>>
                  [] column = "enddate" -> <<"i64", p.enddate[2]>>
                  [] column = "des" -> <<"str", p.description[2]>>
        IN /\ Count(sql, ") VALUES (") = 1
           /\ Range(columns) \subseteq {"startdate", "enddate", "des"}
           /\ \A j, k \in 1..Len(columns) : columns[j] = columns[k] => j = k
           /\ Len(columns) = 1 + Supplied(p.enddate) + Supplied(p.description)
           /\ Count(values, "?") = Len(columns)
           /\ Len(resp.query.args) = Len(columns)
           /\ \A k \in 1..Len(columns) : resp.query.args[k] = ValueOf(columns[k])
           /\ \A k \in 1..Len(values) : values[k] = (IF k % 2 = 1 THEN "?" ELSE ", ")

\* both fields supplied, and a clock that does not read the supplied enddate
C14_Witness ==
    /\ resp.op = "post_booking"
    /\ resp.outcome = "composed"
    /\ resp.req.enddate = Some(0)
    /\ resp.req.description = Some(<<"a">>)
    /\ now = MaxTime
    /\ resp.query.args = <<IntV(MaxTime), IntV(0), StrV(<<"a">>)>>
    /\ Count(resp.query.sql, "?") = 3

\* C15: whatever fields of a filter, update or insert request are present,
\* present-and-empty lists included, the composed statement is structurally
\* complete: no SET without an assignment, no VALUES without a tuple, no IN with
\* an empty list, no WHERE without a predicate.
C15_Complete ==
    resp.outcome = "composed" =>
        LET sql == resp.query.sql
            Follows(i, S) == i < Len(sql) /\ sql[i + 1] \in S
        IN \A i \in 1..Len(sql) :
             /\ sql[i] = "SET " => Follows(i, {"startdate = ", "enddate = ", "des = "})
             /\ sql[i] = "UPDATE tag SET name = " => Follows(i, {"?"})
             /\ sql[i] = ") VALUES (" => Follows(i, {"?"})
             /\ sql[i] = "INSERT INTO tagassignment (tgid, bid) VALUES" => Follows(i, {" ("})
             /\ sql[i] = " AND t.name IN (" => Follows(i, {"?"})
             /\ sql[i] = " WHERE" => Follows(i, {" tgid = ", " bid = "})
             /\ sql[i] = " WHERE id = " => Follows(i, {"?"})

(***************************************************************************)
(* records.rs: Task and NewTask                                            *)
(***************************************************************************)
TaskNames == {EmptyString, <<"a">>}

\* NewTask::new(importance) followed by set_name
NewTask(name, importance_id) == [name |-> name, des |-> EmptyString, iid |-> importance_id]

\* UPDATE task SET name = $1, des = $2, done = $3, iid = $4 [WHERE id = $5]: a
\* statement without WHERE clause updates every row of the table
ExecUpdateTask(text, args, table) ==
    LET hit == IF text = "UPDATE task SET name = $1, des = $2, done = $3, iid = $4"
               THEN table
               ELSE IF text = "UPDATE task SET name = $1, des = $2, done = $3, iid = $4 WHERE id = $5"
               THEN {r \in table : r.id = args[5]}
               ELSE {}
    IN (table \ hit)
       \cup {[r EXCEPT !.name = args[1], !.des = args[2], !.done = args[3], !.iid = args[4]] :
                r \in hit}

\* Record::save for NewTask
new_task_save(name) ==
    /\ resp = Idle
    /\ NextRowId(task) <= MaxId
    /\ LET self == NewTask(name, 1)
           row == [id |-> NextRowId(task), name |-> self.name, des |-> self.des,
                   done |-> FALSE, iid |-> self.iid]
       IN /\ task' = task \cup {row}
          /\ held' = Some(row)
          /\ resp' = Response("new_task_save", self, "ok", NoError, NoQuery, TRUE, <<row>>)
    /\ UNCHANGED <<booking, tag, tagassignment, now, rbooking>>

\* ExistingRecord::from_id for Task
task_from_id(id) ==
    /\ resp = Idle
    /\ LET found == {r \in task : r.id = id}
       IN IF found # {}
          THEN /\ held' = Some(CHOOSE r \in found : TRUE)
               /\ resp' = Response("task_from_id", id, "ok", NoError, NoQuery, TRUE,
                                   SortById(found))
          ELSE /\ held' = held
               /\ resp' = Response("task_from_id", id, "error", RowNotFound, NoQuery, TRUE,
                                   <<>>)
    /\ UNCHANGED <<booking, tag, tagassignment, now, rbooking, task>>

\* Task::set_name and Task::set_done on the Task the caller holds
task_set_name(name) ==
    /\ resp = Idle
    /\ IsSome(held)
    /\ held' = Some([Unwrap(held) EXCEPT !.name = name])
    /\ resp' = Response("task_set_name", name, "ok", NoError, NoQuery, FALSE, <<>>)
    /\ UNCHANGED <<booking, tag, tagassignment, now, rbooking, task>>

task_set_done(done) ==
    /\ resp = Idle
    /\ IsSome(held)
    /\ held' = Some([Unwrap(held) EXCEPT !.done = done])
    /\ resp' = Response("task_set_done", done, "ok", NoError, NoQuery, FALSE, <<>>)
    /\ UNCHANGED <<booking, tag, tagassignment, now, rbooking, task>>

\* Record::save for Task
task_save ==
    /\ resp = Idle
    /\ IsSome(held)
    /\ LET self == Unwrap(held)
       IN /\ task' = ExecUpdateTask("UPDATE task SET name = $1, des = $2, done = $3, iid = $4",
                                    <<self.name, self.des, self.done, self.iid>>, task)
          /\ resp' = Response("task_save", self, "ok", NoError, NoQuery, TRUE, <<self>>)
    /\ UNCHANGED <<booking, tag, tagassignment, now, held, rbooking>>

(***************************************************************************)
(* SpecTask: a caller of records.rs working on Tasks                       *)
(***************************************************************************)
NextTask ==
    \/ \E name \in TaskNames : new_task_save(name)
    \/ \E id \in Ids : task_from_id(id)
    \/ \E name \in TaskNames : task_set_name(name)
    \/ \E done \in BOOLEAN : task_set_done(done)
    \/ task_save
    \/ Return

SpecTask == Init /\ [][NextTask]_vars

\* C19: save on a Task writes the name, des, done and iid of that Task to the
\* stored row with the id of that Task and leaves every other row of task as it
\* was.
C19_TaskSaveFrame ==
    [][(resp = Idle /\ resp'.op = "task_save") =>
        LET self == resp'.req
        IN /\ \A r \in task : r.id # self.id => r \in task'
           /\ \A r \in task' : r.id = self.id => r = self
           /\ RowIds(task') = RowIds(task)]_vars

====
